---- MODULE Spec2Model ----
(***************************************************************************)
(* RELEASING/send_email.py: the release e-mail sender.  One run of the     *)
(* script is one pass through cli -> <subcommand> -> render_template ->    *)
(* inter_send_email -> send_email.  Strings the program only passes along  *)
(* are TLA+ strings; the strings string_comma_to_list takes apart are      *)
(* sequences of characters.                                                *)
(***************************************************************************)
EXTENDS Integers, Sequences, FiniteSets, TLC

VARIABLES
    pc,                 \* position of the single thread of control
    environ,            \* os.environ: SUPERSET_VERSION, SUPERSET_VERSION_RC
    templates,          \* the template files open() can read
    base_parameters,    \* the BaseParameters object held in ctx.obj
    command,            \* the subcommand on the command line
    params,             \* the running subcommand's own parameters
    template_file,      \* the subcommand's template_file local
    message,            \* the subcommand's message local
    stdout,             \* lines printed with print()
    stderr,             \* lines written by exit(<str>) or by a traceback
    confirm,            \* lines read by input() in inter_send_email
    exit_status,        \* <<>> while running, <<status>> once the process ended
    transmitter_calls,  \* the argument tuples send_email was called with
    smtp_log,           \* the ssl/smtplib calls made, in order, with outcome
    connection,         \* the SMTP connection: "none", "open", "closed"
    exc                 \* the exception in flight in send_email

vars == <<pc, environ, templates, base_parameters, command, params,
          template_file, message, stdout, stderr, confirm, exit_status,
          transmitter_calls, smtp_log, connection, exc>>

-----------------------------------------------------------------------------
(* Module constants, lines 34-38 *)

SMTP_PORT == 587
SMTP_SERVER == "mail-relay.apache.org"
PROJECT_NAME == "Superset"
PROJECT_MODULE == "superset"
PROJECT_DESCRIPTION == "Apache Superset is a modern, enterprise-ready business intelligence web application"

\* Python's None, for an option that has no value
None == "<None>"

\* the default of every --receiver_email option
DEFAULT_RECEIVER == "dev@superset.apache.org"

-----------------------------------------------------------------------------
(* Bounds and input domains *)

\* longest comma separated string handed to string_comma_to_list in SpecParse
MaxLen == 4

Chars == {"a", "b", ",", " "}
Whitespace == {" "}

Strings(n) == UNION {[1..k -> Chars] : k \in 0..n}

EmailFlags == {None, "release@apache.org"}
EmailPrompts == {"alice@apache.org"}
Usernames == {"alice"}
Passwords == {"secret"}
VersionFlags == {None, "1.5.0"}
VersionEnvs == {None, "1.4.0"}
RcFlags == {None, "rc2"}
RcEnvs == {None, "rc1"}
ReceiverFlags == {None, "private@superset.apache.org"}
ReceiverPrompts == {"", "test@superset.apache.org"}
\* the --vote_bindings, --vote_nonbindings, --vote_negatives and --vote_thread
\* of a run of result_pmc: all left empty; "a, b,b" with "a" and ""; "a" with
\* " " and "b"; " ,a" with "b," and "a"
VoteInputs ==
    { << <<>>, <<>>, <<>>, "" >>,
      << <<"a", ",", " ", "b", ",", "b">>, <<"a">>, <<>>, "https://lists.apache.org/thread/x" >>,
      << <<"a">>, <<" ">>, <<"b">>, "" >>,
      << <<" ", ",", "a">>, <<"b", ",">>, <<"a">>, "https://lists.apache.org/thread/x" >> }
ConfirmLines == {"yes", "Yes", "y", "", "YES", "no", "n", " y"}
ErrorDetails == {"", "Connection unexpectedly closed"}

TemplateFiles == {"email_templates/vote_pmc.j2",
                  "email_templates/result_pmc.j2",
                  "email_templates/announce.j2"}
Commands == {"vote_pmc", "result_pmc", "announce"}

-----------------------------------------------------------------------------
(* dict helpers *)

EmptyDict == [k \in {} |-> None]

\* d[k] = v
SetItem(d, k, v) == [x \in (DOMAIN d) \cup {k} |-> IF x = k THEN v ELSE d[x]]

-----------------------------------------------------------------------------
(* string_comma_to_list, lines 41-44 *)

\* str.split(","): scan left to right, cut at every ","; always at least one piece
RECURSIVE SplitFrom(_, _, _)
SplitFrom(s, i, cur) ==
    IF i > Len(s) THEN <<cur>>
    ELSE IF s[i] = "," THEN <<cur>> \o SplitFrom(s, i + 1, <<>>)
    ELSE SplitFrom(s, i + 1, Append(cur, s[i]))

Split(s) == SplitFrom(s, 1, <<>>)

RECURSIVE LStrip(_)
LStrip(s) == IF s # <<>> /\ Head(s) \in Whitespace THEN LStrip(Tail(s)) ELSE s

RECURSIVE RStrip(_)
RStrip(s) ==
    IF s # <<>> /\ s[Len(s)] \in Whitespace THEN RStrip(SubSeq(s, 1, Len(s) - 1)) ELSE s

\* str.strip()
Strip(s) == RStrip(LStrip(s))

\* Mutation of string_comma_to_list: the pieces are not stripped
string_comma_to_list_nostrip(msg) ==
    IF msg = <<>> THEN <<>>
    ELSE [i \in 1..Len(Split(msg)) |-> Split(msg)[i]]

string_comma_to_list(msg) ==
    IF msg = <<>> THEN <<>>
    ELSE [i \in 1..Len(Split(msg)) |-> Strip(Split(msg)[i])]

-----------------------------------------------------------------------------
(* render_template, lines 66-75.  The text jinja2 returns is kept abstract: *)
(* it is determined by the template and by the variables handed over.      *)

TemplateRender(file, kwargs) == file \o " " \o ToString(kwargs)

\* the traceback of the OSError open(template_file) raises
OpenError(file) == "OSError: " \o file

-----------------------------------------------------------------------------
(* click's resolution of one string option: flag, then the environment      *)
(* variable, then the prompt (an empty answer takes the default), then the  *)
(* default.  None for a source the option does not have or was not given.   *)

OptionValue(flag, envvalue, prompted, default) ==
    IF flag # None THEN flag
    ELSE IF envvalue # None THEN envvalue
    ELSE IF prompted # None THEN (IF prompted = "" THEN default ELSE prompted)
    ELSE default

-----------------------------------------------------------------------------
(* BaseParameters.__init__, lines 108-121 *)

BaseParameters(email, username, password, version, version_rc) ==
    [email |-> email, username |-> username, password |-> password,
     version |-> version, version_rc |-> version_rc,
     template_arguments |-> EmptyDict]

NoExc == [type |-> "none", detail |-> ""]
SMTPAuthenticationError(d) == [type |-> "SMTPAuthenticationError", detail |-> d]
OtherException(d) == [type |-> "Exception", detail |-> d]

Init ==
    /\ pc = "cli"
    /\ environ \in [SUPERSET_VERSION : VersionEnvs, SUPERSET_VERSION_RC : RcEnvs]
    /\ templates \in {TemplateFiles} \cup {TemplateFiles \ {f} : f \in TemplateFiles}
    /\ base_parameters = BaseParameters(None, None, None, None, None)
    /\ command \in Commands
    /\ params = EmptyDict
    /\ template_file = None
    /\ message = None
    /\ stdout = <<>>
    /\ stderr = <<>>
    /\ confirm = <<>>
    /\ exit_status = <<>>
    /\ transmitter_calls = <<>>
    /\ smtp_log = <<>>
    /\ connection = "none"
    /\ exc = NoExc

-----------------------------------------------------------------------------
(* cli, lines 127-163: the group's options are resolved, then its body runs *)

CliBody(apache_email, apache_username, apache_password, version, version_rc) ==
    LET bp == BaseParameters(apache_email, apache_username, apache_password,
                             version, version_rc)
        t1 == SetItem(bp.template_arguments, "project_name", PROJECT_NAME)
        t2 == SetItem(t1, "project_module", PROJECT_MODULE)
        t3 == SetItem(t2, "project_description", PROJECT_DESCRIPTION)
        t4 == SetItem(t3, "version", bp.version)
        t5 == SetItem(t4, "version_rc", bp.version_rc)
        t6 == SetItem(t5, "sender_email", bp.email)
    IN  [bp EXCEPT !.template_arguments = t6]

\* --version and --version_rc: envvar, no prompt, no default (lines 143-144)
VersionOption(flag, envvalue) == OptionValue(flag, envvalue, None, None)

\* --apache_email, --apache_username, --apache_password: a prompt that is
\* repeated until the answer is not empty, no default (lines 129-142)
IdentityOption(flag, prompted) == OptionValue(flag, None, prompted, None)

cli ==
    /\ pc = "cli"
    /\ \E email_flag \in EmailFlags, email_prompt \in EmailPrompts,
          apache_username \in Usernames, apache_password \in Passwords,
          version_flag \in VersionFlags, rc_flag \in RcFlags :
          base_parameters' =
              CliBody(IdentityOption(email_flag, email_prompt),
                      apache_username, apache_password,
                      VersionOption(version_flag, environ.SUPERSET_VERSION),
                      VersionOption(rc_flag, environ.SUPERSET_VERSION_RC))
    /\ pc' = "subcommand"
    /\ UNCHANGED <<environ, templates, command, params, template_file, message,
                   stdout, stderr, confirm, exit_status, transmitter_calls,
                   smtp_log, connection, exc>>

-----------------------------------------------------------------------------
(* The three subcommands up to their call of render_template *)

\* --receiver_email: default and prompt (lines 167-172, 188-193, 251-256)
ReceiverOption(flag, prompted) == OptionValue(flag, None, prompted, DEFAULT_RECEIVER)

\* lines 175-176
VotePmcVariables(bp, receiver_email) ==
    [bp EXCEPT !.template_arguments = SetItem(@, "receiver_email", receiver_email)]

\* Mutation of ResultPmcVariables: vote_nonbindings and vote_negatives are
\* filled from each other's option
ResultPmcVariablesSwapped(bp, receiver_email, bindings, nonbindings, negatives, thread) ==
    LET t1 == SetItem(bp.template_arguments, "receiver_email", receiver_email)
        t2 == SetItem(t1, "vote_bindings", string_comma_to_list(bindings))
        t3 == SetItem(t2, "vote_nonbindings", string_comma_to_list(negatives))
        t4 == SetItem(t3, "vote_negatives", string_comma_to_list(nonbindings))
        t5 == SetItem(t4, "vote_thread", thread)
    IN  [bp EXCEPT !.template_arguments = t5]

\* lines 228-239
ResultPmcVariables(bp, receiver_email, bindings, nonbindings, negatives, thread) ==
    LET t1 == SetItem(bp.template_arguments, "receiver_email", receiver_email)
        t2 == SetItem(t1, "vote_bindings", string_comma_to_list(bindings))
        t3 == SetItem(t2, "vote_nonbindings", string_comma_to_list(nonbindings))
        t4 == SetItem(t3, "vote_negatives", string_comma_to_list(negatives))
        t5 == SetItem(t4, "vote_thread", thread)
    IN  [bp EXCEPT !.template_arguments = t5]

\* lines 259-260
AnnounceVariables(bp, receiver_email) ==
    [bp EXCEPT !.template_arguments = SetItem(@, "receiver_email", receiver_email)]

SubcommandFrame ==
    UNCHANGED <<environ, templates, command, message, stdout, stderr, confirm,
                exit_status, transmitter_calls, smtp_log, connection, exc>>

vote_pmc ==
    /\ pc = "subcommand"
    /\ command = "vote_pmc"
    /\ \E flag \in ReceiverFlags, prompted \in ReceiverPrompts :
          LET receiver_email == ReceiverOption(flag, prompted) IN
          /\ params' = [receiver_email |-> receiver_email]
          /\ base_parameters' = VotePmcVariables(base_parameters, receiver_email)
    /\ template_file' = "email_templates/vote_pmc.j2"
    /\ pc' = "render_template"
    /\ SubcommandFrame

ResultPmcCall(receiver_email, bindings, nonbindings, negatives, thread) ==
    /\ pc = "subcommand"
    /\ command = "result_pmc"
    /\ params' = [receiver_email |-> receiver_email,
                  vote_bindings |-> bindings,
                  vote_nonbindings |-> nonbindings,
                  vote_negatives |-> negatives,
                  vote_thread |-> thread]
    /\ base_parameters' =
           ResultPmcVariables(base_parameters, receiver_email, bindings,
                              nonbindings, negatives, thread)
    /\ template_file' = "email_templates/result_pmc.j2"
    /\ pc' = "render_template"
    /\ SubcommandFrame

result_pmc ==
    \E flag \in ReceiverFlags, prompted \in ReceiverPrompts, v \in VoteInputs :
       ResultPmcCall(ReceiverOption(flag, prompted), v[1], v[2], v[3], v[4])

announce ==
    /\ pc = "subcommand"
    /\ command = "announce"
    /\ \E flag \in ReceiverFlags, prompted \in ReceiverPrompts :
          LET receiver_email == ReceiverOption(flag, prompted) IN
          /\ params' = [receiver_email |-> receiver_email]
          /\ base_parameters' = AnnounceVariables(base_parameters, receiver_email)
    /\ template_file' = "email_templates/announce.j2"
    /\ pc' = "render_template"
    /\ SubcommandFrame

-----------------------------------------------------------------------------
(* render_template as called by the subcommand, lines 74-75 and 177, 240,   *)
(* 261: open() raises when the file cannot be read and nothing catches it   *)

\* Mutation of render_template: an unreadable template is swallowed and the
\* run goes on with an empty message
render_template_swallow ==
    /\ pc = "render_template"
    /\ \/ /\ template_file \in templates
          /\ message' = TemplateRender(template_file, base_parameters.template_arguments)
       \/ /\ template_file \notin templates
          /\ message' = ""
    /\ pc' = "inter_send_email"
    /\ UNCHANGED <<environ, templates, base_parameters, command, params,
                   template_file, stdout, stderr, confirm, exit_status,
                   transmitter_calls, smtp_log, connection, exc>>

render_template ==
    /\ pc = "render_template"
    /\ \/ /\ template_file \in templates
          /\ message' = TemplateRender(template_file, base_parameters.template_arguments)
          /\ pc' = "inter_send_email"
          /\ UNCHANGED <<stderr, exit_status>>
       \/ /\ template_file \notin templates
          /\ stderr' = Append(stderr, OpenError(template_file))
          /\ exit_status' = <<1>>
          /\ pc' = "failed"
          /\ UNCHANGED message
    /\ UNCHANGED <<environ, templates, base_parameters, command, params,
                   template_file, stdout, confirm, transmitter_calls, smtp_log,
                   connection, exc>>

-----------------------------------------------------------------------------
(* inter_send_email, lines 78-104 *)

RULE == "--------------------------"
USER_EXIT == "Exit by user request"
SENT == "Email sent successfully"
AUTH_ERROR == "SMTP User authentication error, Email not sent!"
\* Mutation of SmtpError: only the text of the exception
SmtpErrorBare(e) == e.detail
SmtpError(e) == "SMTP exception " \o e.detail

\* Mutation of Refused: the answer is compared without regard to case
RefusedFolded(line) == line \notin {"Yes", "yes", "y", "YES", "Y"}

\* line 87
Refused(line) == line \notin {"Yes", "yes", "y"}

\* Mutation of SendEmailCall: sender and receiver change places
SendEmailCallSwapped(bp, msg) ==
    [smtp_server |-> SMTP_SERVER, smpt_port |-> SMTP_PORT,
     username |-> bp.username, password |-> bp.password,
     sender_email |-> bp.template_arguments["receiver_email"],
     receiver_email |-> bp.template_arguments["sender_email"],
     message |-> msg]

\* the arguments of the call of send_email, lines 91-99 with 179-183
SendEmailCall(bp, msg) ==
    [smtp_server |-> SMTP_SERVER, smpt_port |-> SMTP_PORT,
     username |-> bp.username, password |-> bp.password,
     sender_email |-> bp.template_arguments["sender_email"],
     receiver_email |-> bp.template_arguments["receiver_email"],
     message |-> msg]

\* lines 81-85: the preview; the process then blocks in input()
inter_send_email_preview ==
    /\ pc = "inter_send_email"
    /\ stdout' = stdout \o <<RULE, "SMTP Message", RULE, message, RULE>>
    /\ pc' = "input"
    /\ UNCHANGED <<environ, templates, base_parameters, command, params,
                   template_file, message, stderr, confirm, exit_status,
                   transmitter_calls, smtp_log, connection, exc>>

\* lines 86-91: the answer is read; a refusal exits, anything else calls send_email
inter_send_email_confirm ==
    /\ pc = "input"
    /\ \E line \in ConfirmLines :
          /\ confirm' = Append(confirm, line)
          /\ \/ /\ Refused(line)
                /\ stderr' = Append(stderr, USER_EXIT)
                /\ exit_status' = <<1>>
                /\ pc' = "aborted"
                /\ UNCHANGED transmitter_calls
             \/ /\ ~Refused(line)
                /\ transmitter_calls' =
                       Append(transmitter_calls, SendEmailCall(base_parameters, message))
                /\ pc' = "send_email"
                /\ UNCHANGED <<stderr, exit_status>>
    /\ UNCHANGED <<environ, templates, base_parameters, command, params,
                   template_file, message, stdout, smtp_log, connection, exc>>

-----------------------------------------------------------------------------
(* send_email, lines 47-63 *)

Logged(op, ok) == Append(smtp_log, [op |-> op, ok |-> ok])

SendFrame ==
    UNCHANGED <<environ, templates, base_parameters, command, params,
                template_file, message, stdout, stderr, confirm, exit_status,
                transmitter_calls>>

\* line 59
create_default_context ==
    /\ pc = "send_email"
    /\ smtp_log' = Logged("create_default_context", TRUE)
    /\ pc' = "SMTP"
    /\ UNCHANGED <<connection, exc>>
    /\ SendFrame

\* line 60, smtplib.SMTP(smtp_server, smpt_port): a failed connect leaves no
\* connection behind and the with body is not entered
smtp_connect ==
    /\ pc = "SMTP"
    /\ \/ /\ smtp_log' = Logged("SMTP", TRUE)
          /\ connection' = "open"
          /\ pc' = "starttls"
          /\ UNCHANGED exc
       \/ /\ \E d \in ErrorDetails : exc' = OtherException(d)
          /\ smtp_log' = Logged("SMTP", FALSE)
          /\ pc' = "except"
          /\ UNCHANGED connection
    /\ SendFrame

\* Mutation of starttls: a failed STARTTLS is ignored and the session goes on
starttls_unchecked ==
    /\ pc = "starttls"
    /\ \/ smtp_log' = Logged("starttls", TRUE)
       \/ smtp_log' = Logged("starttls", FALSE)
    /\ pc' = "login"
    /\ UNCHANGED <<connection, exc>>
    /\ SendFrame

\* line 61
starttls ==
    /\ pc = "starttls"
    /\ \/ /\ smtp_log' = Logged("starttls", TRUE)
          /\ pc' = "login"
          /\ UNCHANGED exc
       \/ /\ \E d \in ErrorDetails : exc' = OtherException(d)
          /\ smtp_log' = Logged("starttls", FALSE)
          /\ pc' = "__exit__"
    /\ UNCHANGED connection
    /\ SendFrame

\* line 62
login ==
    /\ pc = "login"
    /\ \/ /\ smtp_log' = Logged("login", TRUE)
          /\ pc' = "sendmail"
          /\ UNCHANGED exc
       \/ /\ \E d \in ErrorDetails : exc' = SMTPAuthenticationError(d)
          /\ smtp_log' = Logged("login", FALSE)
          /\ pc' = "__exit__"
       \/ /\ \E d \in ErrorDetails : exc' = OtherException(d)
          /\ smtp_log' = Logged("login", FALSE)
          /\ pc' = "__exit__"
    /\ UNCHANGED connection
    /\ SendFrame

\* line 63
sendmail ==
    /\ pc = "sendmail"
    /\ \/ /\ smtp_log' = Logged("sendmail", TRUE)
          /\ UNCHANGED exc
       \/ /\ \E d \in ErrorDetails : exc' = OtherException(d)
          /\ smtp_log' = Logged("sendmail", FALSE)
    /\ pc' = "__exit__"
    /\ UNCHANGED connection
    /\ SendFrame

\* Mutation of smtp_exit: no with block, the connection is closed by hand
\* after sendmail and stays open when a call has raised
smtp_exit_on_success ==
    /\ pc = "__exit__"
    /\ \/ /\ exc.type = "none"
          /\ connection' = "closed"
          /\ smtp_log' = Logged("close", TRUE)
       \/ /\ exc.type # "none"
          /\ UNCHANGED <<connection, smtp_log>>
    /\ pc' = "except"
    /\ UNCHANGED exc
    /\ SendFrame

\* line 60, leaving the with block: SMTP.__exit__ sends QUIT and closes the
\* connection whether QUIT worked or raised
smtp_exit ==
    /\ pc = "__exit__"
    /\ connection' = "closed"
    /\ \/ /\ smtp_log' = Logged("close", TRUE)
          /\ UNCHANGED exc
       \/ /\ \E d \in ErrorDetails : exc' = OtherException(d)
          /\ smtp_log' = Logged("close", FALSE)
    /\ pc' = "except"
    /\ SendFrame

\* Mutation of inter_send_email_result: the handlers print their message
\* instead of exiting with it
inter_send_email_result_print ==
    /\ pc = "except"
    /\ \/ /\ exc.type = "none"
          /\ stdout' = Append(stdout, SENT)
          /\ pc' = "done"
       \/ /\ exc.type = "SMTPAuthenticationError"
          /\ stdout' = Append(stdout, AUTH_ERROR)
          /\ pc' = "failed"
       \/ /\ exc.type = "Exception"
          /\ stdout' = Append(stdout, "SMTP exception " \o exc.detail)
          /\ pc' = "failed"
    /\ exit_status' = <<0>>
    /\ UNCHANGED <<environ, templates, base_parameters, command, params,
                   template_file, message, stderr, confirm, transmitter_calls,
                   smtp_log, connection, exc>>

\* lines 100-104: send_email has returned or raised
inter_send_email_result ==
    /\ pc = "except"
    /\ \/ /\ exc.type = "none"
          /\ stdout' = Append(stdout, SENT)
          /\ exit_status' = <<0>>
          /\ pc' = "done"
          /\ UNCHANGED stderr
       \/ /\ exc.type = "SMTPAuthenticationError"
          /\ stderr' = Append(stderr, AUTH_ERROR)
          /\ exit_status' = <<1>>
          /\ pc' = "failed"
          /\ UNCHANGED stdout
       \/ /\ exc.type = "Exception"
          /\ stderr' = Append(stderr, SmtpError(exc))
          /\ exit_status' = <<1>>
          /\ pc' = "failed"
          /\ UNCHANGED stdout
    /\ UNCHANGED <<environ, templates, base_parameters, command, params,
                   template_file, message, confirm, transmitter_calls, smtp_log,
                   connection, exc>>

-----------------------------------------------------------------------------

Next ==
    \/ cli
    \/ vote_pmc
    \/ result_pmc
    \/ announce
    \/ render_template
    \/ inter_send_email_preview
    \/ inter_send_email_confirm
    \/ create_default_context
    \/ smtp_connect
    \/ starttls
    \/ login
    \/ sendmail
    \/ smtp_exit
    \/ inter_send_email_result

Spec == Init /\ [][Next]_vars

-----------------------------------------------------------------------------
(* string_comma_to_list on every string of at most MaxLen characters: the   *)
(* run has passed cli and result_pmc receives the string as --vote_bindings *)

InitParse ==
    /\ pc = "subcommand"
    /\ environ = [SUPERSET_VERSION |-> None, SUPERSET_VERSION_RC |-> "rc1"]
    /\ templates = TemplateFiles
    /\ base_parameters = CliBody("alice@apache.org", "alice", "secret", "1.5.0", "rc1")
    /\ command = "result_pmc"
    /\ params = EmptyDict
    /\ template_file = None
    /\ message = None
    /\ stdout = <<>>
    /\ stderr = <<>>
    /\ confirm = <<>>
    /\ exit_status = <<>>
    /\ transmitter_calls = <<>>
    /\ smtp_log = <<>>
    /\ connection = "none"
    /\ exc = NoExc

result_pmc_parse ==
    \E s \in Strings(MaxLen), t \in {<<>>, <<",">>} :
       ResultPmcCall(DEFAULT_RECEIVER, s, t, <<>>, "")

NextParse == result_pmc_parse

SpecParse == InitParse /\ [][NextParse]_vars

-----------------------------------------------------------------------------
(* Properties *)

Terminal == {"done", "aborted", "failed"}
SendCalls == {"create_default_context", "SMTP", "starttls", "login", "sendmail", "close"}
Count(log, op) == Cardinality({i \in 1..Len(log) : log[i].op = op})
Printed(line) == \E i \in 1..Len(stdout) : stdout[i] = line

\* C1: the confirmation accepts exactly "yes", "Yes" and "y"; after any other
\* line the process has ended with a message and a non-zero status and no
\* transmitter call, SMTP connection, STARTTLS, login or sendmail was made;
\* after an accepted line the run went on to the transmitter.
C1_GateExact ==
    /\ Len(confirm) <= 1
    /\ \A i \in 1..Len(confirm) :
          IF confirm[i] \in {"yes", "Yes", "y"}
          THEN pc # "aborted" /\ Len(transmitter_calls) = 1
          ELSE /\ pc = "aborted"
               /\ stderr = <<"Exit by user request">>
               /\ exit_status = <<1>>
               /\ transmitter_calls = <<>>
               /\ smtp_log = <<>>
               /\ connection = "none"

C1_Witness ==
    /\ pc = "aborted"
    /\ confirm = <<"YES">>
    /\ command = "result_pmc"
    /\ transmitter_calls = <<>>

\* C2: a run that ended successfully made exactly one transmitter call, with
\* sender the operator's apache_email, receiver the resolved receiver_email
\* and body the text the one render of the command's template returned.
C2_OneCall ==
    pc = "done" =>
        /\ Len(transmitter_calls) = 1
        /\ transmitter_calls[1].sender_email = base_parameters.email
        /\ transmitter_calls[1].receiver_email = params.receiver_email
        /\ transmitter_calls[1].message = message
        /\ message = TemplateRender("email_templates/" \o command \o ".j2",
                                    base_parameters.template_arguments)
        /\ Count(smtp_log, "sendmail") = 1

C2_Witness ==
    /\ pc = "done"
    /\ command = "announce"
    /\ Len(transmitter_calls) = 1
    /\ transmitter_calls[1].sender_email = "alice@apache.org"
    /\ transmitter_calls[1].receiver_email = "dev@superset.apache.org"

\* C3: when the command's template cannot be read the run ends in
\* render_template: the message is not printed, no confirmation is read and
\* no transmitter call is made.
C3_MissingTemplate ==
    (template_file # None /\ template_file \notin templates) =>
        /\ pc \in {"render_template", "failed"}
        /\ pc = "failed" => exit_status = <<1>> /\ Len(stderr) = 1
        /\ stdout = <<>>
        /\ confirm = <<>>
        /\ transmitter_calls = <<>>
        /\ smtp_log = <<>>

C3_Witness ==
    /\ pc = "failed"
    /\ command = "announce"
    /\ "email_templates/announce.j2" \notin templates
    /\ stdout = <<>>

\* C4: after the confirmation, an authentication failure and any other
\* failure of the SMTP session each end the process with a non-empty message
\* and a non-zero status; the message of an authentication failure is never
\* the message of another failure; the success line is not printed and
\* send_email was called once, with at most one connection, login and sendmail.
C4_Failures ==
    (pc = "failed" /\ exc.type # "none") =>
        /\ Len(stderr) = 1
        /\ stderr[1] # ""
        /\ exit_status = <<1>>
        /\ (stderr[1] = "SMTP User authentication error, Email not sent!")
               <=> (exc.type = "SMTPAuthenticationError")
        /\ ~Printed("Email sent successfully")
        /\ Len(transmitter_calls) = 1
        /\ \A op \in SendCalls : Count(smtp_log, op) <= 1

C4_Witness ==
    /\ pc = "failed"
    /\ exc.type = "Exception"
    /\ exc.detail = ""
    /\ Count(smtp_log, "login") = 1
    /\ stderr # <<>>

\* str.split(",") and str.strip() by position: the pieces lie between
\* consecutive commas, and a stripped piece runs from its first to its last
\* character that is no whitespace
Cuts(s) == {0, Len(s) + 1} \cup {i \in 1..Len(s) : s[i] = ","}
Kth(S, k) == CHOOSE x \in S : Cardinality({y \in S : y < x}) = k - 1
Piece(s, k) == SubSeq(s, Kth(Cuts(s), k) + 1, Kth(Cuts(s), k + 1) - 1)
Kept(x) == {i \in 1..Len(x) : x[i] \notin Whitespace}
Stripped(x) ==
    IF Kept(x) = {} THEN <<>>
    ELSE SubSeq(x, CHOOSE i \in Kept(x) : \A j \in Kept(x) : i <= j,
                   CHOOSE i \in Kept(x) : \A j \in Kept(x) : i >= j)
SplitStripped(s) == [k \in 1..(Cardinality(Cuts(s)) - 1) |-> Stripped(Piece(s, k))]
VoteKeys == {"vote_bindings", "vote_nonbindings", "vote_negatives"}
Parsed == pc = "render_template" /\ command = "result_pmc"

\* C5 as stated: for every string s, string_comma_to_list(s) is s split on ","
\* with every piece stripped.
C5_AsStated ==
    Parsed => \A k \in VoteKeys :
        base_parameters.template_arguments[k] = SplitStripped(params[k])

\* C5: for every non-empty string s, string_comma_to_list(s) is s split on ","
\* with every piece stripped, in the same order; string_comma_to_list("") is
\* the empty sequence.
C5_SplitStrip ==
    Parsed => \A k \in VoteKeys :
        base_parameters.template_arguments[k] =
            IF params[k] = <<>> THEN <<>> ELSE SplitStripped(params[k])

C5_Witness ==
    /\ Parsed
    /\ params.vote_bindings = <<" ", "a", ",", "b">>
    /\ base_parameters.template_arguments["vote_bindings"] = << <<"a">>, <<"b">> >>
    /\ params.vote_negatives = <<>>
    /\ base_parameters.template_arguments["vote_negatives"] = <<>>

\* C6: the SMTP connection is open only inside the with block of send_email;
\* once send_email has returned or raised, on every path, it is closed if it
\* was ever opened.
C6_Closed ==
    /\ connection = "open" => pc \in {"starttls", "login", "sendmail", "__exit__"}
    /\ (pc \in {"except"} \cup Terminal /\ Count(smtp_log, "SMTP") = 1
            /\ smtp_log[2].ok) => connection = "closed"

C6_Witness ==
    /\ pc = "except"
    /\ exc.type = "SMTPAuthenticationError"
    /\ connection = "closed"

\* the states of a command's run; BUILD_VARIABLES is the subcommand before its
\* variables are set, RENDER the call of render_template
Phase ==
    CASE pc = "cli" -> "COLLECT_PARAMS"
      [] pc = "subcommand" -> "BUILD_VARIABLES"
      [] pc = "render_template" -> "RENDER"
      [] pc \in {"inter_send_email", "input"} -> "CONFIRM"
      [] pc \in {"send_email", "SMTP", "starttls", "login", "sendmail", "__exit__", "except"} -> "SEND"
      [] pc = "done" -> "DONE"
      [] pc = "aborted" -> "ABORTED"
      [] pc = "failed" -> "FAILED"

Transitions ==
    { <<"COLLECT_PARAMS", "BUILD_VARIABLES">>, <<"BUILD_VARIABLES", "RENDER">>,
      <<"RENDER", "CONFIRM">>, <<"CONFIRM", "SEND">>, <<"SEND", "DONE">>,
      <<"CONFIRM", "ABORTED">>, <<"RENDER", "FAILED">>, <<"SEND", "FAILED">> }

PhaseStep ==
    Phase' # Phase =>
        /\ <<Phase, Phase'>> \in Transitions
        /\ Phase' = "ABORTED" => confirm' # <<>> /\ confirm'[1] \notin {"yes", "Yes", "y"}
        /\ (Phase = "RENDER" /\ Phase' = "FAILED") => template_file \notin templates
        /\ (Phase = "SEND" /\ Phase' = "FAILED") => exc.type # "none"
        /\ Phase' = "DONE" =>
               /\ exc.type = "none"
               /\ \E i \in 1..Len(smtp_log) : smtp_log[i] = [op |-> "sendmail", ok |-> TRUE]

ExitOk ==
    /\ exit_status # <<>> <=> pc \in Terminal
    /\ exit_status = <<0>> <=> pc = "done"
    /\ pc \in {"aborted", "failed"} => exit_status[1] # 0 /\ stderr # <<>>
    /\ pc \notin Terminal <=> ENABLED Next

\* C7: a run moves only along COLLECT_PARAMS -> BUILD_VARIABLES -> RENDER ->
\* CONFIRM -> SEND -> DONE, CONFIRM -> ABORTED on a refusal, RENDER -> FAILED
\* on a missing template and SEND -> FAILED on an error of the SMTP session;
\* it can stop only in DONE, ABORTED or FAILED; the exit status is 0 exactly
\* in DONE, reached only after a successful send, and non-zero with a message
\* in ABORTED and FAILED.
C7_StateMachine == [][PhaseStep]_vars /\ []ExitOk

C7_Witness ==
    /\ pc = "failed"
    /\ exit_status = <<1>>
    /\ smtp_log # <<>>
    /\ smtp_log[Len(smtp_log)] = [op |-> "close", ok |-> FALSE]
    /\ \E i \in 1..Len(smtp_log) : smtp_log[i] = [op |-> "sendmail", ok |-> TRUE]

\* C8 as stated: when a command body starts, e-mail, username, password,
\* version and release candidate label all hold a value.
C8_FullyPopulated ==
    pc = "subcommand" =>
        /\ base_parameters.email # None
        /\ base_parameters.username # None
        /\ base_parameters.password # None
        /\ base_parameters.version # None
        /\ base_parameters.version_rc # None

\* C8 in the cases the options cover: e-mail, username and password always
\* hold a value when a command body starts
C8_IdentityPopulated ==
    pc = "subcommand" =>
        /\ base_parameters.email # None
        /\ base_parameters.username # None
        /\ base_parameters.password # None

\* C9: the calls of send_email come in the order create_default_context,
\* SMTP, starttls, login, sendmail; login is issued only right after a
\* STARTTLS that succeeded on the connection, sendmail only right after a
\* login that succeeded.
C9_Order ==
    \A i \in 1..Len(smtp_log) :
        /\ smtp_log[i].op = "create_default_context" => i = 1
        /\ smtp_log[i].op = "SMTP" =>
               i = 2 /\ smtp_log[1] = [op |-> "create_default_context", ok |-> TRUE]
        /\ smtp_log[i].op = "starttls" =>
               i = 3 /\ smtp_log[2] = [op |-> "SMTP", ok |-> TRUE]
        /\ smtp_log[i].op = "login" =>
               i = 4 /\ smtp_log[3] = [op |-> "starttls", ok |-> TRUE]
        /\ smtp_log[i].op = "sendmail" =>
               i = 5 /\ smtp_log[4] = [op |-> "login", ok |-> TRUE]

C9_Witness ==
    /\ Len(smtp_log) >= 5
    /\ smtp_log[5] = [op |-> "sendmail", ok |-> TRUE]

SharedKeys ==
    {"project_name", "project_module", "project_description", "version",
     "version_rc", "sender_email"}
Additions(cmd) ==
    IF cmd = "result_pmc"
    THEN {"receiver_email", "vote_bindings", "vote_nonbindings", "vote_negatives", "vote_thread"}
    ELSE {"receiver_email"}

\* the mapping as cli leaves it
SharedSet ==
    LET t == base_parameters.template_arguments IN
    /\ DOMAIN t = SharedKeys
    /\ t["project_name"] = "Superset"
    /\ t["project_module"] = "superset"
    /\ t["project_description"] = "Apache Superset is a modern, enterprise-ready business intelligence web application"
    /\ t["version"] = base_parameters.version
    /\ t["version_rc"] = base_parameters.version_rc
    /\ t["sender_email"] = base_parameters.email

\* what the command does to the mapping
CommandStep ==
    LET old == base_parameters.template_arguments
        new == base_parameters'.template_arguments
    IN  /\ DOMAIN new = DOMAIN old \cup Additions(command)
        /\ \A k \in DOMAIN old : new[k] = old[k]
        /\ new["receiver_email"] = params'.receiver_email
        /\ command = "result_pmc" =>
               /\ \A k \in VoteKeys : new[k] = string_comma_to_list(params'[k])
               /\ new["vote_thread"] = params'.vote_thread

\* C10: the mapping handed to the renderer is the shared set fixed by cli,
\* values unchanged, plus exactly the command's additions: receiver_email
\* for vote_pmc and announce; receiver_email, the three parsed sequences and
\* vote_thread for result_pmc; no key is removed.
C10_Variables ==
    /\ [](pc = "subcommand" => SharedSet)
    /\ [][pc = "subcommand" => CommandStep]_vars
    /\ [][pc \notin {"cli", "subcommand"} => base_parameters' = base_parameters]_vars
    /\ [](message # None =>
              message = TemplateRender(template_file, base_parameters.template_arguments))

C10_Witness ==
    /\ pc = "inter_send_email"
    /\ command = "result_pmc"
    /\ params.vote_bindings = <<"a", ",", " ", "b", ",", "b">>
    /\ DOMAIN base_parameters.template_arguments = SharedKeys \cup Additions("result_pmc")
    /\ base_parameters.template_arguments["vote_bindings"] = << <<"a">>, <<"b">>, <<"b">> >>
    /\ base_parameters.template_arguments["vote_nonbindings"] = << <<"a">> >>
    /\ base_parameters.template_arguments["vote_negatives"] = <<>>

====
